---- MODULE Spec2Model ----
(***************************************************************************)
(* The synchronisation pipeline of src/src/main.rs: find_books (Scanner),  *)
(* sync_books (Coordinator), the tasks spawned by copy_to_non_existant     *)
(* (CopyTasks), collect_stats (Aggregator) and the driver main, connected  *)
(* by the two bounded tokio mpsc channels.                                 *)
(*                                                                         *)
(* A path is a record [dir, name, readable]: name is the final component   *)
(* as a sequence of tokens (<<"a", ".", "epub">>), so that Path::extension *)
(* is computed from the name the way the standard library computes it;     *)
(* the token BadToken and the directory BadDir stand for byte sequences    *)
(* that are not valid UTF-8, on which Path::to_str returns None; readable  *)
(* says whether File::open succeeds on the file.                           *)
(*                                                                         *)
(* Inputs left out: failures of writes to standard output, a destination   *)
(* root or a documents root that is not valid UTF-8, and changes made to   *)
(* the trees by other processes while the pipeline runs.                   *)
(***************************************************************************)
EXTENDS Naturals, Sequences, FiniteSets

\* Longest traversal (number of entries the walk yields, a traversal error
\* counted as one entry), the traversal ScenarioWalk apart.
MaxEntries == 2

\* Capacities of the two channels.  The source sets both to 128; the model
\* scales them down so that a traversal can hold more Candidates than a
\* channel and senders really block on a full channel.
FOUND_BOOKS_CHANNEL_BOUND == 1
STATISTICS_CHANNEL_BOUND == 1

BadToken == "xFF"
BadDir == "dxFF"
DestDir == "kobo"

EXTENSIONS_TO_SYNCHRONISE == { <<"epub">>, <<".", "pdf">> }

P(d, n, r) == [dir |-> d, name |-> n, readable |-> r]

\* The entry on which the traversal reports an error instead of a path.
WalkError == P("!", <<"!">>, FALSE)

\* The files the source trees may hold.
Files ==
    { P("d1", <<"a", ".", "epub">>, TRUE),
      P("d2", <<"a", ".", "epub">>, FALSE),
      P("d1", <<"e", ".", "epub">>, TRUE),
      P("d1", <<"b", ".", "pdf">>, TRUE),
      P("d1", <<"c", ".", "txt">>, TRUE),
      P("d1", <<BadToken, ".", "epub">>, TRUE),
      P(BadDir, <<"f", ".", "epub">>, TRUE),
      P("d3", <<"a", ".", "epub">>, TRUE) }

\* The bytes of a source file: two bytes, distinct for distinct sources.
Content(p) == <<p.dir, p.name[1]>>

\* What a file already at the destination before the first run holds.
OldContent == <<"old">>

\* Destination directories before the first run.
InitialDests ==
    { <<>> } \cup { [n \in {<<"a", ".", "epub">>} |-> OldContent] }

\* The documents directories, in the order of the command line.
DirIndex(d) ==
    CASE d = "d1" -> 1 [] d = "d2" -> 2 [] d = "d3" -> 3 [] d = BadDir -> 4
      [] OTHER -> 5

\* The traversal of one directory holding a.epub, b.pdf and c.txt.
ScenarioWalk ==
    << P("d1", <<"a", ".", "epub">>, TRUE),
       P("d1", <<"b", ".", "pdf">>, TRUE),
       P("d1", <<"c", ".", "txt">>, TRUE) >>

\* Traversals: find_books walks the directories one after the other, in any
\* order within a directory; no file is met twice, and an error ends the
\* traversal.
BoundedWalks ==
    { w \in UNION { [1..n -> Files \cup {WalkError}] : n \in 0..MaxEntries } :
        /\ \A i, j \in DOMAIN w : i # j => w[i] # w[j]
        /\ \A i \in DOMAIN w : w[i] = WalkError => i = Len(w)
        /\ \A i, j \in DOMAIN w :
              i < j => DirIndex(w[i].dir) <= DirIndex(w[j].dir) }

Walks == BoundedWalks \cup {ScenarioWalk}

----------------------------------------------------------------------------
\* Path helpers

\* Path::to_str(): None when the path is not valid UTF-8.
path_str(path) ==
    IF path.dir # BadDir /\ \A i \in DOMAIN path.name : path.name[i] # BadToken
    THEN "Ok" ELSE "Err"

\* Path::file_name(): the final component.
file_name(path) == path.name

Dots(name) == { i \in DOMAIN name : name[i] = "." }

LastDot(name) == CHOOSE i \in Dots(name) : \A j \in Dots(name) : j <= i

\* Path::extension(): what follows the last dot of the file name, without the
\* dot; None (<<>> here) when there is no dot or the name begins with its
\* only dot.
extension(path) ==
    LET name == file_name(path) IN
    IF Dots(name) = {} \/ LastDot(name) = 1 THEN <<>>
    ELSE SubSeq(name, LastDot(name) + 1, Len(name))

\* find_books: the filter that makes an entry a Candidate.
IsBook(path) ==
    extension(path) # <<>> /\ extension(path) \in EXTENSIONS_TO_SYNCHRONISE

\* sync_books: the destination path of a Candidate.
DestPath(book) == P(DestDir, file_name(book), TRUE)

----------------------------------------------------------------------------
VARIABLES
    dry_run,        \* Args.dry_run
    walk,           \* what the traversal of the documents directories yields
    fs,             \* the destination directory: file name -> bytes
    books,          \* the candidate-path channel
    stats,          \* the statistic channel
    scanPc, scanPos,                            \* find_books
    coPc, book, copy_tasks, joinIdx,            \* sync_books
    found_src_documents, not_copied, copied, agPc,   \* collect_stats
    mainPc,         \* main
    run,            \* "first" or "second" invocation of the program
    fs0,            \* history: fs when the current run started
    firstRun,       \* history: how the first run ended
    resolved,       \* history: the outcomes sync_books sent, in order
    created,        \* history: the files the exclusive create made, this run
    failed          \* history: the tasks that ended with Err, in order of time

vars == << dry_run, walk, fs, books, stats, scanPc, scanPos, coPc, book,
           copy_tasks, joinIdx, found_src_documents, not_copied, copied, agPc,
           mainPc, run, fs0, firstRun, resolved, created, failed >>

inputs == << dry_run, walk >>
scanner == << scanPc, scanPos >>
counters == << found_src_documents, not_copied, copied, agPc >>
history == << run, fs0, firstRun, failed >>

NoBook == P("-", <<>>, FALSE)

\* The process is alive until main returns: the runtime is then dropped and
\* every task still running is cancelled.
Running == mainPc \notin {"ok", "err"}

ScannerEnded == scanPc \in {"done", "err"}
CoordinatorEnded == coPc \in {"done", "err_loop", "err_join"}

\* The senders of the two channels are owned by find_books and sync_books and
\* are dropped when these return.
BooksClosed == ScannerEnded

\* Mutant of StatsClosed: main hands sync_books a clone and keeps stats_tx,
\* so a sender of the statistic channel outlives find_books and sync_books.
StatsClosed_MainKeepsSender == FALSE

\* Mutant of StatsClosed: only find_books holds a sender of the statistic
\* channel that the receiver waits for.
StatsClosed_ScannerOnly == ScannerEnded

StatsClosed == ScannerEnded /\ CoordinatorEnded

StartOfRun ==
    /\ books = <<>>
    /\ stats = <<>>
    /\ scanPc = "next"
    /\ scanPos = 0
    /\ coPc = "recv"
    /\ book = NoBook
    /\ copy_tasks = <<>>
    /\ joinIdx = 1
    /\ found_src_documents = 0
    /\ not_copied = 0
    /\ copied = 0
    /\ agPc = "loop"
    /\ mainPc = "sync"
    /\ resolved = <<>>
    /\ created = {}

Init ==
    /\ dry_run \in BOOLEAN
    /\ walk \in Walks
    /\ fs \in InitialDests
    /\ fs0 = fs
    /\ run = "first"
    /\ firstRun = "none"
    /\ failed = <<>>
    /\ StartOfRun

----------------------------------------------------------------------------
\* find_books

\* entries.next(): the next entry, a traversal error, or the end of the last
\* directory.  An entry that is no book is passed over.
find_books_next ==
    /\ Running
    /\ scanPc = "next"
    /\ IF scanPos = Len(walk)
       THEN scanPc' = "done" /\ scanPos' = scanPos
       ELSE /\ scanPos' = scanPos + 1
            /\ scanPc' = IF walk[scanPos + 1] = WalkError THEN "err"
                         ELSE IF IsBook(walk[scanPos + 1]) THEN "send_stat"
                         ELSE "next"
    /\ UNCHANGED << inputs, fs, books, stats, coPc, book, copy_tasks, joinIdx,
                    counters, mainPc, history, resolved, created >>

\* Mutant of find_books_send_stat: the book is passed on without its
\* FoundSrcDocument statistic having been sent first.
find_books_no_stat_before_book ==
    /\ Running
    /\ scanPc = "send_stat"
    /\ scanPc' = "send_book"
    /\ UNCHANGED << inputs, fs, books, stats, scanPos, coPc, book, copy_tasks,
                    joinIdx, counters, mainPc, history, resolved, created >>

\* stats.send(Statistic::FoundSrcDocument).await?
find_books_send_stat ==
    /\ Running
    /\ scanPc = "send_stat"
    /\ IF agPc # "loop"
       THEN scanPc' = "err" /\ stats' = stats
       ELSE /\ Len(stats) < STATISTICS_CHANNEL_BOUND
            /\ stats' = Append(stats, "FoundSrcDocument")
            /\ scanPc' = "send_book"
    /\ UNCHANGED << inputs, fs, books, scanPos, coPc, book, copy_tasks, joinIdx,
                    counters, mainPc, history, resolved, created >>

\* books.send(path_buf).await?: an error once sync_books has dropped the
\* receiver.
find_books_send_book ==
    /\ Running
    /\ scanPc = "send_book"
    /\ IF CoordinatorEnded
       THEN scanPc' = "err" /\ books' = books
       ELSE /\ Len(books) < FOUND_BOOKS_CHANNEL_BOUND
            /\ books' = Append(books, walk[scanPos])
            /\ scanPc' = "next"
    /\ UNCHANGED << inputs, fs, stats, scanPos, coPc, book, copy_tasks, joinIdx,
                    counters, mainPc, history, resolved, created >>

----------------------------------------------------------------------------
\* copy_to_non_existant and the task it spawns

NoTask == [src |-> NoBook, dest |-> NoBook, pos |-> 0, st |-> "none"]

Task(src_path, dest_path) ==
    [src |-> src_path, dest |-> dest_path, pos |-> 0, st |-> "run"]

\* Mutant of create_new: create(true).truncate(true) in place of
\* create_new(true), which opens and empties a file that exists.
create_truncate(files, dest_path) ==
    [res |-> "Ok",
     fs |-> [n \in DOMAIN files \cup {dest_path.name} |->
                IF n = dest_path.name THEN <<>> ELSE files[n]]]

\* OpenOptions::new().write(true).create_new(true).open(dest_path): fails
\* when the name exists, and creates an empty file otherwise.
create_new(files, dest_path) ==
    IF dest_path.name \in DOMAIN files
    THEN [res |-> "Err", fs |-> files]
    ELSE [res |-> "Ok",
          fs |-> [n \in DOMAIN files \cup {dest_path.name} |->
                     IF n = dest_path.name THEN <<>> ELSE files[n]]]

\* The dry-run branch: both paths are decoded for the message, nothing is
\* opened, and a task that does nothing is spawned.
DryCopy(files, src_path, dest_path) ==
    IF path_str(src_path) = "Ok" /\ path_str(dest_path) = "Ok"
    THEN [res |-> "Ok", fs |-> files, task |-> Task(src_path, dest_path)]
    ELSE [res |-> "Err", fs |-> files, task |-> NoTask]

\* The real branch: File::open on the source, the exclusive create of the
\* destination, then the two paths decoded for the task's message, then the
\* spawn.  An error after the create leaves the created file, empty.
RealCopy(files, src_path, dest_path) ==
    IF ~src_path.readable
    THEN [res |-> "Err", fs |-> files, task |-> NoTask]
    ELSE LET dest == create_new(files, dest_path) IN
         IF dest.res = "Err"
         THEN [res |-> "Err", fs |-> files, task |-> NoTask]
         ELSE IF path_str(src_path) = "Ok" /\ path_str(dest_path) = "Ok"
              THEN [res |-> "Ok", fs |-> dest.fs,
                    task |-> Task(src_path, dest_path)]
              ELSE [res |-> "Err", fs |-> dest.fs, task |-> NoTask]

\* The result of copy_to_non_existant on the destination directory files:
\* Ok with the spawned task, or Err; with the directory it leaves.
\* (Mutant of copy_to_non_existant: the dry-run flag is not consulted.)
copy_ignoring_dry_run(files, src_path, dest_path, dry) ==
    RealCopy(files, src_path, dest_path)

copy_to_non_existant(files, src_path, dest_path, dry) ==
    IF dry THEN DryCopy(files, src_path, dest_path)
    ELSE RealCopy(files, src_path, dest_path)

SetTask(i, t) == copy_tasks' = [copy_tasks EXCEPT ![i] = t]

\* io::copy, one byte of the source appended through the task's own handle.
copy_task_write(i) ==
    LET t == copy_tasks[i] IN
    /\ i \in DOMAIN copy_tasks
    /\ Running
    /\ ~dry_run
    /\ t.st = "run"
    /\ t.pos < Len(Content(t.src))
    /\ fs' = [fs EXCEPT ![t.dest.name] = Append(@, Content(t.src)[t.pos + 1])]
    /\ SetTask(i, [t EXCEPT !.pos = @ + 1])
    /\ UNCHANGED << inputs, books, stats, scanner, coPc, book, joinIdx,
                    counters, mainPc, history, resolved, created >>

\* io::copy reports an I/O error: the task ends with Err.
copy_task_fail(i) ==
    LET t == copy_tasks[i] IN
    /\ i \in DOMAIN copy_tasks
    /\ Running
    /\ ~dry_run
    /\ t.st = "run"
    /\ t.pos < Len(Content(t.src))
    /\ SetTask(i, [t EXCEPT !.st = "err"])
    /\ failed' = Append(failed, [run |-> run, task |-> i, name |-> t.dest.name,
                                   src |-> t.src])
    /\ UNCHANGED << inputs, fs, books, stats, scanner, coPc, book, joinIdx,
                    counters, mainPc, run, fs0, firstRun, resolved, created >>

\* The task returns Ok(()): at once in a dry run, after the last byte and
\* the "Copied" line otherwise.
copy_task_finish(i) ==
    LET t == copy_tasks[i] IN
    /\ i \in DOMAIN copy_tasks
    /\ Running
    /\ t.st = "run"
    /\ dry_run \/ t.pos = Len(Content(t.src))
    /\ SetTask(i, [t EXCEPT !.st = "ok"])
    /\ UNCHANGED << inputs, fs, books, stats, scanner, coPc, book, joinIdx,
                    counters, mainPc, history, resolved, created >>

----------------------------------------------------------------------------
\* sync_books

\* Mutant of AfterErr: the notice is printed and no statistic is sent.
AfterErr_NoStat(b) ==
    IF path_str(DestPath(b)) = "Ok" THEN "recv" ELSE "err_loop"

\* Where sync_books goes when copy_to_non_existant returned Err on book b:
\* the destination path is decoded for the notice, which is an error of
\* sync_books when it fails, and the statistic is sent.
AfterErr(b) ==
    IF path_str(DestPath(b)) = "Ok" THEN "send_skipped" ELSE "err_loop"

\* books_to_sync.recv() yields a book: the copy is attempted.
sync_books_recv ==
    /\ Running
    /\ coPc = "recv"
    /\ books # <<>>
    /\ LET b == Head(books)
           r == copy_to_non_existant(fs, b, DestPath(b), dry_run)
       IN /\ books' = Tail(books)
          /\ book' = b
          /\ fs' = r.fs
          /\ created' = IF DOMAIN r.fs # DOMAIN fs
                        THEN created \cup {[name |-> file_name(b), src |-> b]}
                        ELSE created
          /\ IF r.res = "Ok"
             THEN /\ copy_tasks' = Append(copy_tasks, r.task)
                  /\ coPc' = "send_copied"
             ELSE /\ copy_tasks' = copy_tasks
                  /\ coPc' = AfterErr(b)
    /\ UNCHANGED << inputs, stats, scanner, joinIdx, counters, mainPc, history,
                    resolved >>

\* The statistic sync_books sends for the book it holds.
Outcome == IF coPc = "send_copied" THEN "Copied"
           ELSE "NotCopiedBecauseAlreadyExistedAtDest"

\* stats.send(Statistic::Copied) or
\* stats.send(Statistic::NotCopiedBecauseAlreadyExistedAtDest)
sync_books_send_stat ==
    /\ Running
    /\ coPc \in {"send_copied", "send_skipped"}
    /\ IF agPc # "loop"
       THEN coPc' = "err_loop" /\ UNCHANGED << stats, resolved >>
       ELSE /\ Len(stats) < STATISTICS_CHANNEL_BOUND
            /\ stats' = Append(stats, Outcome)
            /\ resolved' = Append(resolved, [book |-> book, stat |-> Outcome])
            /\ coPc' = "recv"
    /\ UNCHANGED << inputs, fs, books, scanner, book, copy_tasks, joinIdx,
                    counters, mainPc, history, created >>

\* books_to_sync.recv() yields None: the channel is empty and closed.
sync_books_closed ==
    /\ Running
    /\ coPc = "recv"
    /\ books = <<>>
    /\ BooksClosed
    /\ coPc' = "join"
    /\ UNCHANGED << inputs, fs, books, stats, scanner, book, copy_tasks,
                    joinIdx, counters, mainPc, history, resolved, created >>

\* Mutant of sync_books_join: the handles are dropped instead of awaited,
\* so the loop moves on whether or not the task has finished.
sync_books_join_no_await ==
    /\ Running
    /\ coPc = "join"
    /\ IF joinIdx > Len(copy_tasks)
       THEN coPc' = "done" /\ joinIdx' = joinIdx
       ELSE IF copy_tasks[joinIdx].st = "err"
            THEN coPc' = "err_join" /\ joinIdx' = joinIdx
            ELSE coPc' = coPc /\ joinIdx' = joinIdx + 1
    /\ UNCHANGED << inputs, fs, books, stats, scanner, book, copy_tasks,
                    counters, mainPc, history, resolved, created >>

\* Mutant of sync_books_join: the handles are awaited together and the error
\* of whichever task has failed is returned.
sync_books_join_any_failed ==
    /\ Running
    /\ coPc = "join"
    /\ \/ \E i \in DOMAIN copy_tasks :
             /\ copy_tasks[i].st = "err"
             /\ coPc' = "err_join"
             /\ joinIdx' = i
       \/ /\ \A i \in DOMAIN copy_tasks : copy_tasks[i].st = "ok"
          /\ coPc' = "done"
          /\ joinIdx' = Len(copy_tasks) + 1
    /\ UNCHANGED << inputs, fs, books, stats, scanner, book, copy_tasks,
                    counters, mainPc, history, resolved, created >>

\* for task in copy_tasks { task.await??; }
sync_books_join ==
    /\ Running
    /\ coPc = "join"
    /\ IF joinIdx > Len(copy_tasks)
       THEN coPc' = "done" /\ joinIdx' = joinIdx
       ELSE /\ copy_tasks[joinIdx].st \in {"ok", "err"}
            /\ IF copy_tasks[joinIdx].st = "ok"
               THEN coPc' = coPc /\ joinIdx' = joinIdx + 1
               ELSE coPc' = "err_join" /\ joinIdx' = joinIdx
    /\ UNCHANGED << inputs, fs, books, stats, scanner, book, copy_tasks,
                    counters, mainPc, history, resolved, created >>

----------------------------------------------------------------------------
\* collect_stats

\* stats.recv() yields a statistic: its counter is incremented.
collect_stats_recv ==
    /\ Running
    /\ agPc = "loop"
    /\ stats # <<>>
    /\ stats' = Tail(stats)
    /\ found_src_documents' =
          found_src_documents + IF Head(stats) = "FoundSrcDocument" THEN 1 ELSE 0
    /\ not_copied' = not_copied +
          IF Head(stats) = "NotCopiedBecauseAlreadyExistedAtDest" THEN 1 ELSE 0
    /\ copied' = copied + IF Head(stats) = "Copied" THEN 1 ELSE 0
    /\ UNCHANGED << inputs, fs, books, scanner, coPc, book, copy_tasks, joinIdx,
                    agPc, mainPc, history, resolved, created >>

\* stats.recv() yields None: the summary is printed.
collect_stats_print ==
    /\ Running
    /\ agPc = "loop"
    /\ stats = <<>>
    /\ StatsClosed
    /\ agPc' = "printed"
    /\ UNCHANGED << inputs, fs, books, stats, scanner, coPc, book, copy_tasks,
                    joinIdx, found_src_documents, not_copied, copied, mainPc,
                    history, resolved, created >>

----------------------------------------------------------------------------
\* main

\* Mutant of main_sync_books: the three futures are awaited together, so
\* that the error of find_books is returned as soon as it occurs.
main_sync_books_try_join ==
    /\ mainPc = "sync"
    /\ \/ /\ scanPc = "err"
          /\ mainPc' = "err"
       \/ /\ CoordinatorEnded
          /\ mainPc' = IF coPc = "done" THEN "join_finding" ELSE "err"
    /\ UNCHANGED << inputs, fs, books, stats, scanner, coPc, book, copy_tasks,
                    joinIdx, counters, history, resolved, created >>

\* sync_books(...).await?
main_sync_books ==
    /\ mainPc = "sync"
    /\ CoordinatorEnded
    /\ mainPc' = IF coPc = "done" THEN "join_finding" ELSE "err"
    /\ UNCHANGED << inputs, fs, books, stats, scanner, coPc, book, copy_tasks,
                    joinIdx, counters, history, resolved, created >>

\* Mutant of main_book_finding: book_finding.await? with one question mark,
\* which looks at the join and discards the Result of find_books.
main_book_finding_join_only ==
    /\ mainPc = "join_finding"
    /\ ScannerEnded
    /\ mainPc' = "join_stats"
    /\ UNCHANGED << inputs, fs, books, stats, scanner, coPc, book, copy_tasks,
                    joinIdx, counters, history, resolved, created >>

\* book_finding.await??
main_book_finding ==
    /\ mainPc = "join_finding"
    /\ ScannerEnded
    /\ mainPc' = IF scanPc = "done" THEN "join_stats" ELSE "err"
    /\ UNCHANGED << inputs, fs, books, stats, scanner, coPc, book, copy_tasks,
                    joinIdx, counters, history, resolved, created >>

\* stats_collection.await??, then Ok(())
main_stats_collection ==
    /\ mainPc = "join_stats"
    /\ agPc = "printed"
    /\ mainPc' = "ok"
    /\ UNCHANGED << inputs, fs, books, stats, scanner, coPc, book, copy_tasks,
                    joinIdx, counters, history, resolved, created >>

\* The program is started again on the same sources, with the same flag, on
\* the destination the first run left.
Rerun ==
    /\ ~Running
    /\ run = "first"
    /\ run' = "second"
    /\ firstRun' = mainPc
    /\ fs0' = fs
    /\ books' = <<>>
    /\ stats' = <<>>
    /\ scanPc' = "next"
    /\ scanPos' = 0
    /\ coPc' = "recv"
    /\ book' = NoBook
    /\ copy_tasks' = <<>>
    /\ joinIdx' = 1
    /\ found_src_documents' = 0
    /\ not_copied' = 0
    /\ copied' = 0
    /\ agPc' = "loop"
    /\ mainPc' = "sync"
    /\ resolved' = <<>>
    /\ created' = {}
    /\ UNCHANGED << inputs, fs, failed >>

----------------------------------------------------------------------------
CopyTaskStep ==
    \E i \in DOMAIN copy_tasks :
        copy_task_write(i) \/ copy_task_fail(i) \/ copy_task_finish(i)

ScannerStep == find_books_next \/ find_books_send_stat \/ find_books_send_book

CoordinatorStep ==
    sync_books_recv \/ sync_books_send_stat \/ sync_books_closed \/ sync_books_join

AggregatorStep == collect_stats_recv \/ collect_stats_print

MainStep == main_sync_books \/ main_book_finding \/ main_stats_collection

Next ==
    \/ ScannerStep
    \/ CoordinatorStep
    \/ CopyTaskStep
    \/ AggregatorStep
    \/ MainStep
    \/ Rerun

Spec == Init /\ [][Next]_vars

\* A step of the pipeline other than an I/O error.
Progress ==
    \/ ScannerStep
    \/ CoordinatorStep
    \/ AggregatorStep
    \/ MainStep
    \/ \E i \in DOMAIN copy_tasks : copy_task_write(i) \/ copy_task_finish(i)

\* The tokio runtime runs a task that can make progress, and polls main when
\* what it awaits completes: while some task can take a step, one is taken.
\* (This asks less than fairness to each task.)  A task's I/O error and a new
\* invocation of the program are the environment's and are not forced.
FairSpec == Spec /\ WF_vars(Progress)

----------------------------------------------------------------------------
\* Vocabulary of the properties

Copied == "Copied"
Skipped == "NotCopiedBecauseAlreadyExistedAtDest"

\* The Candidates of the traversal: the entries find_books accepts.
BooksOf(w) == { w[i] : i \in { k \in DOMAIN w : w[k] # WalkError /\ IsBook(w[k]) } }

\* The positions of the outcomes sync_books sent for book b.
OutcomesOf(b) == { k \in DOMAIN resolved : resolved[k].book = b }

NumberOf(stat) == Cardinality({ k \in DOMAIN resolved : resolved[k].stat = stat })

Succeeded == mainPc = "ok"

SummaryPrinted == agPc = "printed"

SameDest(i, j) == file_name(resolved[i].book) = file_name(resolved[j].book)

----------------------------------------------------------------------------
\* C1: in every run that completes successfully the summary satisfies
\* found == skipped + copied, and every Candidate counted as found was
\* resolved by sync_books to exactly one outcome, Copied or skipped, which
\* the counters count.
C1_Conservation ==
    Succeeded =>
        /\ found_src_documents = not_copied + copied
        /\ found_src_documents = Cardinality(BooksOf(walk))
        /\ \A b \in BooksOf(walk) : Cardinality(OutcomesOf(b)) = 1
        /\ copied = NumberOf(Copied)
        /\ not_copied = NumberOf(Skipped)

\* A successful run that copied a book and skipped another.
C1_Witness ==
    Succeeded /\ copied >= 1 /\ not_copied >= 1 /\ found_src_documents >= 2

\* The first outcome sent, in this run, for the destination name of
\* resolved[i] is resolved[i].
FirstOfName(i) == \A k \in DOMAIN resolved : SameDest(k, i) => i <= k

\* The exclusive create can decide between resolved[i] and a later Candidate
\* of the same name: no file of that name is at the destination when the run
\* starts, and the source of resolved[i] can be opened and its path decoded.
Contended(i) ==
    /\ FirstOfName(i)
    /\ file_name(resolved[i].book) \notin DOMAIN fs0
    /\ resolved[i].book.readable
    /\ path_str(resolved[i].book) = "Ok"

C3_Idempotent ==
    (run = "second" /\ firstRun = "ok" /\ ~dry_run) =>
        /\ fs = fs0
        /\ created = {}
        /\ copy_tasks = <<>>
        /\ NumberOf(Copied) = 0
        /\ SummaryPrinted =>
              /\ copied = 0
              /\ not_copied = found_src_documents
              /\ found_src_documents = Cardinality(BooksOf(walk))

\* The second run succeeded too, on a destination holding a file the first
\* run copied, and found books.
C3_Witness ==
    /\ run = "second" /\ firstRun = "ok" /\ ~dry_run
    /\ Succeeded
    /\ found_src_documents >= 2
    /\ \E b \in BooksOf(walk) :
          file_name(b) \in DOMAIN fs0 /\ fs0[file_name(b)] = Content(b)

\* The recognized set as C4 states it: epub and pdf.
RecognizedAsStated == { <<"epub">>, <<"pdf">> }

\* The entries of the traversal whose extension is in the set C4 states.
StatedBooksOf(w) ==
    { w[i] : i \in { k \in DOMAIN w :
                        w[k] # WalkError /\ extension(w[k]) \in RecognizedAsStated } }

\* C4 as stated: on a.epub, b.pdf and c.txt in one directory and an empty
\* destination, a real run that succeeds has found exactly the entries whose
\* extension is epub or pdf: it reports found=2, copied=2, skipped=0 and
\* leaves a.epub and b.pdf, and not c.txt, at the destination.
C4_Original ==
    (Succeeded /\ run = "first" /\ walk = ScenarioWalk /\ fs0 = <<>> /\ ~dry_run) =>
        /\ found_src_documents = Cardinality(StatedBooksOf(walk))
        /\ found_src_documents = 2
        /\ copied = 2
        /\ not_copied = 0
        /\ DOMAIN fs = { <<"a", ".", "epub">>, <<"b", ".", "pdf">> }

\* C5 as stated: after a real run that succeeded, every file the run created
\* at the destination holds the bytes of the source it was created for.
C5_Original ==
    (Succeeded /\ ~dry_run) =>
        \A c \in created : fs[c.name] = Content(c.src)

\* sync_books is past the copy attempt and the statistic of the book it
\* received last.
Handled == book # NoBook /\ coPc \notin {"send_copied", "send_skipped"}

LastResolvedIs(b, stat) ==
    resolved # <<>> /\ resolved[Len(resolved)] = [book |-> b, stat |-> stat]

\* A real run leaves every file that was at the destination as it was, and
\* binds no task to it.
ExistingUntouched ==
    /\ \A n \in DOMAIN fs0 : n \in DOMAIN fs /\ fs[n] = fs0[n]
    /\ \A i \in DOMAIN copy_tasks : copy_tasks[i].dest.name \notin DOMAIN fs0
    /\ \A c \in created : c.name \notin DOMAIN fs0

\* C6 as stated: a real run leaves the files already at the destination as
\* they were, dispatches no task for them, and a Candidate whose destination
\* name already exists is resolved as skipped.
C6_Original ==
    ~dry_run =>
        /\ ExistingUntouched
        /\ (Handled /\ file_name(book) \in DOMAIN fs0) =>
              LastResolvedIs(book, Skipped)

\* C6 amended: a real run leaves the files already at the destination as
\* they were and dispatches no task for them; a Candidate whose destination
\* name already exists is resolved as skipped when its destination path can
\* be decoded for the notice, and otherwise ends sync_books with an error
\* without any outcome being sent for it.
C6_Amended ==
    ~dry_run =>
        /\ ExistingUntouched
        /\ (Handled /\ file_name(book) \in DOMAIN fs0) =>
              IF path_str(DestPath(book)) = "Ok"
              THEN LastResolvedIs(book, Skipped)
              ELSE coPc = "err_loop" /\ OutcomesOf(book) = {}

\* A real run that succeeded left a file that was at the destination as it
\* was, after skipping the Candidate of that name and copying another.
C6_Witness ==
    /\ ~dry_run
    /\ run = "first"
    /\ Succeeded
    /\ copied >= 1
    /\ \E b \in BooksOf(walk) :
          /\ file_name(b) \in DOMAIN fs0
          /\ fs[file_name(b)] = OldContent
          /\ \E k \in OutcomesOf(b) : resolved[k].stat = Skipped

\* C7: in a dry run the destination directory is at every moment what it was
\* when the run started: nothing is created, written or removed, and no
\* step changes it.
C7_DryRunFrame ==
    dry_run => fs = fs0 /\ created = {}

\* A dry run that succeeded after reporting copies.
C7_Witness ==
    dry_run /\ Succeeded /\ copied >= 2 /\ Len(copy_tasks) >= 2

\* A fatal error has occurred in the current run.
FatalError ==
    \/ scanPc = "err"
    \/ coPc \in {"err_loop", "err_join"}
    \/ \E i \in DOMAIN copy_tasks : copy_tasks[i].st = "err"
    \/ mainPc = "err"

\* C8: under fair scheduling a run in which no fatal error occurs
\* terminates with success, whatever the number of Candidates and however
\* full the channels get: from the start of a run, either main returns Ok or
\* a fatal error occurs.
C8_Terminates == (mainPc = "sync") ~> (Succeeded \/ FatalError)

\* A run succeeded that had more Candidates than either channel holds.
C8_Witness ==
    /\ Succeeded
    /\ ~FatalError
    /\ Cardinality(BooksOf(walk)) > FOUND_BOOKS_CHANNEL_BOUND
    /\ found_src_documents > STATISTICS_CHANNEL_BOUND
    /\ SummaryPrinted

\* C9: when main returns Ok, find_books and sync_books have returned Ok,
\* every task sync_books dispatched has been joined and returned Ok, both
\* channels are drained and the summary has been printed.
C9_SuccessMeansAllDone ==
    Succeeded =>
        /\ scanPc = "done"
        /\ coPc = "done"
        /\ joinIdx > Len(copy_tasks)
        /\ \A i \in DOMAIN copy_tasks : copy_tasks[i].st = "ok"
        /\ books = <<>>
        /\ stats = <<>>
        /\ SummaryPrinted

\* A real run succeeded after dispatching two copies.
C9_Witness == Succeeded /\ ~dry_run /\ Len(copy_tasks) >= 2

C11_Original ==
    (dry_run /\ Succeeded) =>
        /\ \A k \in DOMAIN resolved : resolved[k].stat = Copied
        /\ copied = found_src_documents
        /\ not_copied = 0

\* The copy attempt on resolved[k].book failed for another reason than the
\* destination existing: the source could not be opened, or the exclusive
\* create succeeded and a path could not be decoded afterwards.
OtherFailure(k) ==
    \/ ~resolved[k].book.readable
    \/ [name |-> file_name(resolved[k].book), src |-> resolved[k].book] \in created

\* C12 as stated: in a real run a Candidate is counted as skipped only when
\* the exclusive create failed because the destination exists; a copy
\* attempt that fails for another reason is never counted as skipped.
C12_Original ==
    ~dry_run =>
        \A k \in DOMAIN resolved :
            resolved[k].stat = Skipped => ~OtherFailure(k)

Finished(i) == copy_tasks[i].st \in {"ok", "err"}

\* C13 as stated: whenever sync_books has returned, with success or with the
\* error of a task, every task it dispatched has finished.
C13_Original ==
    coPc \in {"done", "err_join"} =>
        \A i \in DOMAIN copy_tasks : Finished(i)

\* C13 amended: when a task fails sync_books cancels no task, but it returns
\* at the first failed task in dispatch order without awaiting the tasks
\* dispatched after it.  When it has returned with success, every task has
\* finished with success; when it has returned with the error of a task,
\* that task has failed and every task dispatched before it has finished
\* with success, and a task dispatched after it is left as it is, running
\* or finished.
C13_Amended ==
    /\ coPc = "done" =>
          \A i \in DOMAIN copy_tasks : copy_tasks[i].st = "ok"
    /\ coPc = "err_join" =>
          /\ joinIdx \in DOMAIN copy_tasks
          /\ copy_tasks[joinIdx].st = "err"
          /\ \A i \in DOMAIN copy_tasks : i < joinIdx => copy_tasks[i].st = "ok"
          /\ \A i \in DOMAIN copy_tasks :
                i > joinIdx => copy_tasks[i].st \in {"run", "ok", "err"}

\* sync_books has returned the error of the first task while the second one
\* is still copying.
C13_Witness ==
    /\ coPc = "err_join"
    /\ joinIdx = 1
    /\ Len(copy_tasks) >= 2
    /\ copy_tasks[2].st = "run"

\* C14: in a real run every task was dispatched after the exclusive create
\* of its destination succeeded for its own source, so at every moment no
\* two tasks are bound to the same destination path, and the destination of
\* a task holds exactly the bytes that task has written so far.
C14_OneTaskPerDestination ==
    ~dry_run =>
        \A i \in DOMAIN copy_tasks :
            LET t == copy_tasks[i] IN
            /\ \A j \in DOMAIN copy_tasks : j # i => copy_tasks[j].dest # t.dest
            /\ [name |-> t.dest.name, src |-> t.src] \in created
            /\ t.dest.name \notin DOMAIN fs0
            /\ t.dest.name \in DOMAIN fs
            /\ fs[t.dest.name] = SubSeq(Content(t.src), 1, t.pos)

\* While a task is half way through its copy, a second Candidate with the
\* same destination name has been refused by the exclusive create.
C14_Witness ==
    /\ ~dry_run
    /\ \E i \in DOMAIN copy_tasks :
          /\ copy_tasks[i].st = "run"
          /\ copy_tasks[i].pos = 1
          /\ \E k \in DOMAIN resolved :
                /\ resolved[k].stat = Skipped
                /\ resolved[k].book # copy_tasks[i].src
                /\ file_name(resolved[k].book) = copy_tasks[i].dest.name

\* The number of FoundSrcDocument statistics find_books has sent: one for
\* every book of the traversal up to its position, the one it is about to
\* send apart.
FoundSent ==
    LET met == Cardinality({ k \in 1..scanPos : IsBook(walk[k]) })
    IN IF scanPc = "send_stat" THEN met - 1 ELSE met

\* C15: the summary is printed only when find_books and sync_books have
\* ended and the statistic channel is drained, with counters equal to the
\* numbers of statistics of each kind sent during the run; and once printed
\* it is not printed again and its counters no longer change during the run.
C15_SummaryOnceAndExact ==
    /\ [](SummaryPrinted =>
            /\ ScannerEnded
            /\ CoordinatorEnded
            /\ stats = <<>>
            /\ found_src_documents = FoundSent
            /\ copied = NumberOf(Copied)
            /\ not_copied = NumberOf(Skipped))
    /\ [][SummaryPrinted =>
            \/ run' # run
            \/ /\ SummaryPrinted'
               /\ ~ENABLED collect_stats_print
               /\ UNCHANGED << found_src_documents, not_copied, copied >>]_vars

\* The summary has been printed, before main has joined collect_stats, with
\* a book found and copied and another found and skipped.
C15_Witness ==
    /\ SummaryPrinted
    /\ Running
    /\ found_src_documents = 2
    /\ copied = 1
    /\ not_copied = 1

\* C16: sync_books awaits its tasks only once the book channel is closed
\* and drained, and in the order of the vector: every task before the one
\* awaited has returned Ok, whatever the order in which the tasks ended; the
\* error it returns is that of the first task of the vector that failed.
C16_JoinInDispatchOrder ==
    /\ coPc \in {"join", "done", "err_join"} => BooksClosed /\ books = <<>>
    /\ coPc = "join" =>
          /\ joinIdx \in 1..(Len(copy_tasks) + 1)
          /\ \A i \in 1..(joinIdx - 1) : copy_tasks[i].st = "ok"
    /\ coPc = "err_join" =>
          /\ joinIdx \in DOMAIN copy_tasks
          /\ copy_tasks[joinIdx].st = "err"
          /\ \A i \in DOMAIN copy_tasks :
                copy_tasks[i].st = "err" => joinIdx <= i

\* Two tasks have failed, the second of the vector before the first, and
\* sync_books has returned the error of the first of the vector.
C16_Witness ==
    /\ run = "first"
    /\ Len(failed) = 2
    /\ failed[1].task = 2
    /\ failed[2].task = 1
    /\ coPc = "err_join"
    /\ joinIdx = 1

\* The traversal has yielded an error, which find_books has returned.
TraversalFailed ==
    /\ scanPc = "err"
    /\ scanPos \in DOMAIN walk
    /\ walk[scanPos] = WalkError

\* C17: once the traversal has reported an error the run never succeeds,
\* and under fair scheduling main returns the error, however sync_books,
\* the copy tasks and collect_stats interleave with find_books.
C17_TraversalErrorFails ==
    /\ [](TraversalFailed => ~Succeeded)
    /\ (TraversalFailed /\ Running) ~> (mainPc = "err")

\* main has returned an error after a failed traversal although sync_books
\* returned Ok, a book was copied and the summary was printed.
C17_Witness ==
    /\ mainPc = "err"
    /\ TraversalFailed
    /\ coPc = "done"
    /\ SummaryPrinted
    /\ copied >= 1

\* The number of statistics of the queue q that are FoundSrcDocument, and
\* the number that are not.
RECURSIVE FoundIn(_)
FoundIn(q) ==
    IF q = <<>> THEN 0
    ELSE (IF Head(q) = "FoundSrcDocument" THEN 1 ELSE 0) + FoundIn(Tail(q))

ResolvedIn(q) == Len(q) - FoundIn(q)

\* C18: at every moment the counter of found books is at least the sum of
\* the two other counters, and it stays so after any number of the queued
\* statistics is received: the statistic of a book's outcome is queued
\* behind the FoundSrcDocument of that book.
C18_FoundBoundsResolved ==
    \A n \in 0..Len(stats) :
        found_src_documents + FoundIn(SubSeq(stats, 1, n))
            >= not_copied + copied + ResolvedIn(SubSeq(stats, 1, n))

\* The bound is met with equality while find_books is still sending: the
\* outcome of the first book has been counted before the FoundSrcDocument
\* of the second is sent.
C18_Witness ==
    /\ Running
    /\ scanPc = "send_stat"
    /\ coPc = "recv"
    /\ found_src_documents = 1
    /\ not_copied + copied = 1
    /\ stats = <<>>

\* The book b has been given the statistic Copied, or sync_books is about
\* to send it.
CountedCopied(b) ==
    \/ \E k \in DOMAIN resolved : resolved[k] = [book |-> b, stat |-> Copied]
    \/ coPc = "send_copied" /\ book = b

\* The bytes are a proper prefix of the content of the source p.
Partial(bytes, p) ==
    /\ Len(bytes) < Len(Content(p))
    /\ bytes = SubSeq(Content(p), 1, Len(bytes))

\* C19: in a real run a task that failed leaves its destination file, with
\* the bytes written so far, and its book stays counted as Copied; in a
\* second real run on the same sources that file is left as the first run
\* left it, no task is spawned for its name and every book of that name is
\* counted as already existing.
C19_PartialFileStays ==
    ~dry_run =>
        /\ \A i \in DOMAIN copy_tasks :
              LET t == copy_tasks[i] IN
              t.st = "err" =>
                  /\ t.dest.name \in DOMAIN fs
                  /\ Partial(fs[t.dest.name], t.src)
                  /\ CountedCopied(t.src)
        /\ run = "second" =>
              \A k \in DOMAIN failed :
                  LET f == failed[k] IN
                  f.run = "first" =>
                      /\ f.name \in DOMAIN fs0
                      /\ Partial(fs0[f.name], f.src)
                      /\ fs[f.name] = fs0[f.name]
                      /\ \A i \in DOMAIN copy_tasks :
                            copy_tasks[i].dest.name # f.name
                      /\ \A r \in DOMAIN resolved :
                            file_name(resolved[r].book) = f.name =>
                                resolved[r].stat = Skipped

\* A second real run has ended in success although the book whose task
\* failed in the first run was met again: it was counted as already
\* existing and its file still lacks bytes.
C19_Witness ==
    /\ ~dry_run
    /\ run = "second"
    /\ Succeeded
    /\ \E k \in DOMAIN failed :
          /\ failed[k].run = "first"
          /\ [book |-> failed[k].src, stat |-> Skipped] \in
                { resolved[r] : r \in DOMAIN resolved }
          /\ Partial(fs[failed[k].name], failed[k].src)

\* The books find_books had sent when the traversal failed.
SentBeforeFailure == { walk[j] : j \in { n \in 1..(scanPos - 1) : IsBook(walk[n]) } }

\* C20: main returns an error only after sync_books has returned; when the
\* traversal has failed and sync_books has returned Ok, the book channel is
\* empty, every book sent before the failure has its outcome and every
\* task has been joined; and under fair scheduling sync_books does return
\* after the traversal has failed.
C20_ResolvedDespiteTraversalError ==
    /\ [](mainPc = "err" => CoordinatorEnded)
    /\ []((TraversalFailed /\ coPc = "done") =>
            /\ books = <<>>
            /\ \A b \in SentBeforeFailure : OutcomesOf(b) # {}
            /\ \A i \in DOMAIN copy_tasks : copy_tasks[i].st = "ok")
    /\ (TraversalFailed /\ Running) ~> CoordinatorEnded

\* A first, real run that main ended with the error of the traversal has
\* created a file at the destination and copied a book into it in full.
C20_Witness ==
    /\ run = "first"
    /\ ~dry_run
    /\ mainPc = "err"
    /\ TraversalFailed
    /\ coPc = "done"
    /\ \E i \in DOMAIN copy_tasks :
          LET t == copy_tasks[i] IN
          /\ t.src \in SentBeforeFailure
          /\ t.dest.name \notin DOMAIN fs0
          /\ fs[t.dest.name] = Content(t.src)

====
